---- MODULE Spec2Model ----
(***************************************************************************)
(* A model of the weather-radar backend: the MRMS data processor           *)
(* (backend/real_mrms_processor.py) and the cache-fronted Flask handler    *)
(* (backend/mrms_service.py).                                              *)
(*                                                                         *)
(* Conventions.                                                            *)
(*  - A Python str that the code slices or parses is a sequence of         *)
(*    one-character strings; None is the empty sequence <<>> and a value   *)
(*    that may be None is the one-element sequence <<v>>.                   *)
(*  - A Python float is a fixed-point integer in thousandths (Milli).      *)
(*  - A naive datetime is a record [year, month, day, hour, minute,        *)
(*    second]; the handler's datetime.now() instants are seconds on the    *)
(*    variable clock, and datetime.utcnow() is base + clock seconds.       *)
(***************************************************************************)
EXTENDS Integers, Sequences, FiniteSets, TLC

VARIABLES
    base,             \* the UTC wall time at clock = 0
    clock,            \* seconds elapsed since base
    remote,           \* what the two mirrors answer to a HEAD request
    cached_data,      \* mrms_service.cached_data   (None = <<>>)
    last_fetch_time,  \* mrms_service.last_fetch_time (None = <<>>)
    calls,            \* the completed requests, oldest first
    probes,           \* the HEAD requests issued by the last prober run
    located,          \* what the last prober run returned
    level_in,         \* the last argument given to _get_intensity_level
    level_out,        \* and what it returned
    collection,       \* the last FeatureCollection the generator returned
    random_state,     \* the state of the random module's generator
    pc,               \* threaded server: each worker's position
    frame,            \* threaded server: each worker's local variables
    started,          \* threaded server: the number of requests begun
    cd_writer,        \* threaded server: the request that stored cached_data
    lf_writer         \* threaded server: the request that stored last_fetch_time

vars == <<base, clock, remote, cached_data, last_fetch_time, calls, probes,
          located, level_in, level_out, collection, random_state, pc,
          frame, started, cd_writer, lf_writer>>

None == <<>>
Some(v) == <<v>>

(***************************************************************************)
(* Bounds of the model.                                                    *)
(***************************************************************************)
MaxClock == 240
MaxFiles == 2
MaxRequests == 3
MaxDbz == 70
CycleLen == 3

(***************************************************************************)
(* Characters and numbers.                                                 *)
(***************************************************************************)
Digits == <<"0", "1", "2", "3", "4", "5", "6", "7", "8", "9">>

IsDigit(c) == \E d \in 1..10 : Digits[d] = c

DigitValue(c) == (CHOOSE d \in 1..10 : Digits[d] = c) - 1

\* '%02d'-style zero padding, as strftime's %Y %m %d %H %M produce it.
RECURSIVE Pad(_, _)
Pad(n, width) ==
    IF width = 0 THEN <<>>
    ELSE Pad(n \div 10, width - 1) \o <<Digits[(n % 10) + 1]>>

\* int(s) for a str of decimal digits; ValueError (None here) otherwise.
RECURSIVE IntOf(_)
IntOf(s) ==
    IF s = <<>> THEN None
    ELSE IF \E i \in 1..Len(s) : ~IsDigit(s[i]) THEN None
    ELSE IF Len(s) = 1 THEN Some(DigitValue(s[1]))
    ELSE Some(10 * IntOf(SubSeq(s, 1, Len(s) - 1))[1] + DigitValue(s[Len(s)]))

\* s[a:b] of Python, 0-based and end-exclusive, clipped to the string.
Slice(s, a, b) ==
    SubSeq(s, a + 1, IF b > Len(s) THEN Len(s) ELSE b)

StartsWith(s, p) == Len(s) >= Len(p) /\ SubSeq(s, 1, Len(p)) = p

\* s.replace(old, ''): every non-overlapping occurrence removed, left to right.
RECURSIVE Remove(_, _)
Remove(s, old) ==
    IF s = <<>> THEN <<>>
    ELSE IF StartsWith(s, old) THEN Remove(SubSeq(s, Len(old) + 1, Len(s)), old)
    ELSE <<s[1]>> \o Remove(Tail(s), old)

(***************************************************************************)
(* datetime arithmetic.                                                    *)
(***************************************************************************)
IsLeap(y) == (y % 4 = 0) /\ ((y % 100 # 0) \/ (y % 400 = 0))

DaysInMonth(y, m) ==
    IF m = 2 THEN (IF IsLeap(y) THEN 29 ELSE 28)
    ELSE IF m \in {4, 6, 9, 11} THEN 30 ELSE 31

NextDay(d) ==
    IF d.day < DaysInMonth(d.year, d.month) THEN [d EXCEPT !.day = d.day + 1]
    ELSE IF d.month < 12 THEN [d EXCEPT !.month = d.month + 1, !.day = 1]
    ELSE [d EXCEPT !.year = d.year + 1, !.month = 1, !.day = 1]

PrevDay(d) ==
    IF d.day > 1 THEN [d EXCEPT !.day = d.day - 1]
    ELSE IF d.month > 1
         THEN [d EXCEPT !.month = d.month - 1,
                        !.day = DaysInMonth(d.year, d.month - 1)]
    ELSE [d EXCEPT !.year = d.year - 1, !.month = 12, !.day = 31]

RECURSIVE AddDays(_, _)
AddDays(d, n) ==
    IF n = 0 THEN d
    ELSE IF n > 0 THEN AddDays(NextDay(d), n - 1)
    ELSE AddDays(PrevDay(d), n + 1)

\* datetime + timedelta(seconds=s): the time of day is carried into the date.
AddSeconds(d, s) ==
    LET total == d.hour * 3600 + d.minute * 60 + d.second + s
        secs  == total % 86400
        day   == AddDays(d, total \div 86400)
    IN  [day EXCEPT !.hour = secs \div 3600,
                    !.minute = (secs % 3600) \div 60,
                    !.second = secs % 60]

\* datetime + timedelta(minutes=m)
AddMinutes(d, m) == AddSeconds(d, 60 * m)

\* strftime('%Y%m%d-%H%M00')
Stamp(d) ==
    Pad(d.year, 4) \o Pad(d.month, 2) \o Pad(d.day, 2) \o <<"-">>
        \o Pad(d.hour, 2) \o Pad(d.minute, 2) \o <<"0", "0">>

utcnow == AddSeconds(base, clock)

(***************************************************************************)
(* MRMSDataProcessor: the two mirrors and the existence probe.             *)
(***************************************************************************)
aws_base_url == "https://noaa-mrms-pds.s3.amazonaws.com"
ncep_base_url == "https://mrms.ncep.noaa.gov/data/CONUS"
product == "MRMS_ReflectivityAtLowestAltitude"

\* '.grib2.gz'
GribExt == <<".", "g", "r", "i", "b", "2", ".", "g", "z">>

\* 'MRMS_ReflectivityAtLowestAltitude_00.50_'
NcepFilePrefix ==
    <<"M", "R", "M", "S", "_", "R", "e", "f", "l", "e", "c", "t", "i", "v", "i", "t", "y", "A", "t", "L", "o", "w", "e", "s", "t", "A", "l", "t", "i", "t", "u", "d", "e", "_">>
    \o <<"0", "0", ".", "5", "0", "_">>

\* A URL is its text before the last '/' and, as characters, the text after it:
\* url.split('/')[-1] is its file.
AwsUrl(timestamp) ==
    [dir |-> aws_base_url \o "/" \o product, file |-> timestamp \o GribExt]

NcepUrl(timestamp) ==
    LET year   == Slice(timestamp, 0, 4)
        month  == Slice(timestamp, 4, 6)
        day    == Slice(timestamp, 6, 8)
        hour   == Slice(timestamp, 9, 11)
        minute == Slice(timestamp, 11, 13)
    IN  [dir  |-> ncep_base_url,
         file |-> NcepFilePrefix \o year \o month \o day \o <<"-">> \o hour
                      \o minute \o <<"0", "0">> \o GribExt]

\* requests.head(url, timeout=10) against the mirrors as they are now: a mirror
\* that is unreachable raises, one that is up answers 200 for a file it holds.
requests_head(rem, url) ==
    LET mode == IF url.dir = ncep_base_url THEN rem.ncep ELSE rem.aws
    IN  IF mode = "timeout" THEN [raised |-> TRUE, status_code |-> 0]
        ELSE IF mode = "http503" THEN [raised |-> FALSE, status_code |-> 503]
        ELSE IF url \in rem.files THEN [raised |-> FALSE, status_code |-> 200]
        ELSE [raised |-> FALSE, status_code |-> 404]

StatusOk(code) == code = 200

\* A variant that takes a failed request for a hit.
_check_url_exists_ErrorIsHit(rem, url) ==
    LET response == requests_head(rem, url)
    IN  IF response.raised THEN TRUE ELSE StatusOk(response.status_code)

_check_url_exists(rem, url) ==
    LET response == requests_head(rem, url)
    IN  IF response.raised THEN FALSE ELSE StatusOk(response.status_code)

Offsets == <<0, -2, -4, -6, -8, -10, -12, -14, -16, -18, -20>>

\* A variant that rounds to the nearest even minute instead of down.
RoundedMinutes_Nearest(minute) == ((minute + 1) \div 2) * 2

RoundedMinutes(minute) == (minute \div 2) * 2

\* now.replace(minute=rounded_minutes, second=0, microsecond=0)
DataTime(now) ==
    [now EXCEPT !.minute = RoundedMinutes(now.minute), !.second = 0]

Timestamps(now) ==
    [i \in 1..Len(Offsets) |-> Stamp(AddMinutes(DataTime(now), Offsets[i]))]

\* One of the two for-loops: probe urls[i], urls[i+1], ... until one exists.
RECURSIVE TryMirror(_, _, _, _)
TryMirror(rem, urls, i, log) ==
    IF i > Len(urls) THEN [found |-> 0, log |-> log]
    ELSE IF _check_url_exists(rem, urls[i])
         THEN [found |-> i, log |-> Append(log, urls[i])]
    ELSE TryMirror(rem, urls, i + 1, Append(log, urls[i]))

\* Returns (data_url, timestamp), and here also the probes it issued in order.
\* Nothing inside the try block raises, so the except branch adds no outcome.
get_latest_data_url(now, rem) ==
    LET timestamps == Timestamps(now)
        aws  == TryMirror(rem, [i \in 1..Len(timestamps) |-> AwsUrl(timestamps[i])],
                          1, <<>>)
    IN  IF aws.found > 0
        THEN [data_url  |-> Some(AwsUrl(timestamps[aws.found])),
              timestamp |-> Some(timestamps[aws.found]),
              log       |-> aws.log]
        ELSE LET ncep == TryMirror(rem,
                             [i \in 1..Len(timestamps) |-> NcepUrl(timestamps[i])],
                             1, aws.log)
             IN  IF ncep.found > 0
                 THEN [data_url  |-> Some(NcepUrl(timestamps[ncep.found])),
                       timestamp |-> Some(timestamps[ncep.found]),
                       log       |-> ncep.log]
                 ELSE [data_url |-> None, timestamp |-> None, log |-> ncep.log]

(***************************************************************************)
(* The intensity classifier and the synthetic field generator.  Degrees,   *)
(* dBZ and the unit interval are in thousandths; an angle is counted in    *)
(* 720ths of pi, so that 1440 is a full turn and a minute of the day is    *)
(* the angle time_of_day * pi / 12.                                        *)
(***************************************************************************)
Milli == 10 * 10 * 10

\* A variant with strict thresholds.
_get_intensity_level_Strict(reflectivity) ==
    IF reflectivity > 50 * Milli THEN "extreme"
    ELSE IF reflectivity > 40 * Milli THEN "heavy"
    ELSE IF reflectivity > 30 * Milli THEN "moderate"
    ELSE IF reflectivity > 20 * Milli THEN "light"
    ELSE "very light"

_get_intensity_level(reflectivity) ==
    IF reflectivity >= 50 * Milli THEN "extreme"
    ELSE IF reflectivity >= 40 * Milli THEN "heavy"
    ELSE IF reflectivity >= 30 * Milli THEN "moderate"
    ELSE IF reflectivity >= 20 * Milli THEN "light"
    ELSE "very light"

\* math.sin in thousandths, by Bhaskara's rational approximation (within 2
\* thousandths of the sine), rounded to the nearest thousandth.
SinMilli(a) ==
    LET m    == a % 1440
        h    == IF m <= 720 THEN m ELSE m - 720
        p    == h * (720 - h)
        half == (16 * Milli * p + (5 * 518400 - 4 * p) \div 2)
                    \div (5 * 518400 - 4 * p)
    IN  IF m <= 720 THEN half ELSE -half

CosMilli(a) == SinMilli(a + 360)

Clamp(lo, x, hi) == IF x < lo THEN lo ELSE IF x > hi THEN hi ELSE x

\* round(x, ndigits) of a value in thousandths: to the nearest multiple of
\* 10^(3 - ndigits), a tie going to the even one; nothing to do from 3 digits on.
Round(x, ndigits) ==
    IF ndigits >= 3 THEN x
    ELSE LET unit == 10 ^ (3 - ndigits)
             q    == x \div unit
             r    == x % unit
         IN  IF 2 * r < unit THEN q * unit
             ELSE IF 2 * r > unit THEN (q + 1) * unit
             ELSE IF q % 2 = 0 THEN q * unit ELSE (q + 1) * unit

base_systems ==
    << [center |-> <<39000, -95000>>, base_intensity |-> 35, time_boost |-> 15,
        radius |-> 4000, type |-> "convective"],
       [center |-> <<32500, -86000>>, base_intensity |-> 42, time_boost |-> 5,
        radius |-> 3500, type |-> "stratiform"],
       [center |-> <<41500, -74000>>, base_intensity |-> 38, time_boost |-> 8,
        radius |-> 2800, type |-> "showery"],
       [center |-> <<40500, -123500>>, base_intensity |-> 45, time_boost |-> 2,
        radius |-> 3200, type |-> "orographic"],
       [center |-> <<44000, -110500>>, base_intensity |-> 32, time_boost |-> 3,
        radius |-> 4500, type |-> "mountain"],
       [center |-> <<29000, -91000>>, base_intensity |-> 55, time_boost |-> 10,
        radius |-> 3800, type |-> "thunderstorm"],
       [center |-> <<42000, -99000>>, base_intensity |-> 40, time_boost |-> 12,
        radius |-> 3000, type |-> "developing"],
       [center |-> <<38500, -85000>>, base_intensity |-> 37, time_boost |-> 6,
        radius |-> 2500, type |-> "valley"] >>

\* points_density.get(type, 35)
points_density(type) ==
    CASE type = "convective"   -> 45
      [] type = "thunderstorm" -> 50
      [] type = "stratiform"   -> 35
      [] type = "showery"      -> 30
      [] type = "orographic"   -> 40
      [] type = "mountain"     -> 35
      [] type = "developing"   -> 40
      [] type = "valley"       -> 30
      [] OTHER                 -> 35

\* The random module's generator: a cycle of random() values in thousandths
\* and the place of the next one.
Draw(rng) == rng.cycle[rng.pos]

Advance(rng) == [rng EXCEPT !.pos = (rng.pos % Len(rng.cycle)) + 1]

\* random.uniform(a, b) = a + (b - a) * random()
Uniform(a, b, u) == a + ((b - a) * u) \div Milli

InConus(lat, lng) ==
    /\ 25000 <= lat /\ lat <= 49000
    /\ -125000 <= lng /\ lng <= -67000

\* The body of the inner loop, once a point has passed the CONUS test: the
\* label is taken from the clamped value, the reported value is rounded.
Reading(system, current_intensity, distance, lat, lng, u, timestamp) ==
    LET distance_factor == Milli - (distance * Milli) \div system.radius
        turbulence      == Uniform(-8000, 8000, u)
        reflectivity    == Clamp(18000,
                                 (current_intensity * distance_factor) \div Milli
                                     + turbulence,
                                 65000)
    IN  [coordinates |-> <<Round(lng, 6), Round(lat, 6)>>,
         reflectivity |-> Round(reflectivity, 1),
         intensity |-> _get_intensity_level(reflectivity),
         systemType |-> system.type,
         timestamp |-> timestamp]

\* One pass of the inner loop: the feature it appends, if any, and the
\* generator state after its two or three draws.
OnePoint(system, current_intensity, rng, timestamp) ==
    LET angle    == (1440 * Draw(rng)) \div Milli
        rng1     == Advance(rng)
        distance == Uniform(100, system.radius, Draw(rng1))
        rng2     == Advance(rng1)
        lat      == system.center[1] + (distance * CosMilli(angle)) \div Milli
        lng      == system.center[2] + (distance * SinMilli(angle)) \div Milli
    IN  IF InConus(lat, lng)
        THEN [features |-> <<Reading(system, current_intensity, distance, lat,
                                     lng, Draw(rng2), timestamp)>>,
              rng |-> Advance(rng2)]
        ELSE [features |-> <<>>, rng |-> rng2]

\* for i in range(num_points): the features that n passes append, in order,
\* and the generator state after them (the first half of the passes, then the
\* rest from the state the first half leaves).
RECURSIVE SystemPoints(_, _, _, _, _)
SystemPoints(system, current_intensity, n, rng, timestamp) ==
    IF n = 0 THEN [features |-> <<>>, rng |-> rng]
    ELSE IF n = 1 THEN OnePoint(system, current_intensity, rng, timestamp)
    ELSE LET first == SystemPoints(system, current_intensity, n \div 2, rng,
                                   timestamp)
             rest  == SystemPoints(system, current_intensity, n - n \div 2,
                                   first.rng, timestamp)
         IN  [features |-> first.features \o rest.features, rng |-> rest.rng]

\* for system in base_systems, from the k-th on
RECURSIVE AllSystems(_, _, _, _)
AllSystems(k, day_factor, rng, timestamp) ==
    IF k > Len(base_systems) THEN [features |-> <<>>, rng |-> rng]
    ELSE LET system == base_systems[k]
             current_intensity ==
                 Clamp(25000,
                       system.base_intensity * Milli + system.time_boost * day_factor,
                       60000)
             done == SystemPoints(system, current_intensity,
                                  points_density(system.type), rng, timestamp)
             rest == AllSystems(k + 1, day_factor, done.rng, timestamp)
         IN  [features |-> done.features \o rest.features, rng |-> rest.rng]

\* Returns the FeatureCollection and the generator state it leaves, or raises
\* ValueError when one of the five int() conversions fails.  Of a feature the
\* constant members ('type', 'unit', 'dataSource') are left out, of the metadata
\* 'source', 'product', 'resolution' and 'dataType'.
_generate_realistic_mrms_data(timestamp, rng) ==
    LET year   == IntOf(Slice(timestamp, 0, 4))
        month  == IntOf(Slice(timestamp, 4, 6))
        day    == IntOf(Slice(timestamp, 6, 8))
        hour   == IntOf(Slice(timestamp, 9, 11))
        minute == IntOf(Slice(timestamp, 11, 13))
    IN  IF None \in {year, month, day, hour, minute}
        THEN [raised |-> TRUE, error |-> "ValueError", value |-> None, rng |-> rng]
        ELSE LET day_factor == SinMilli(hour[1] * 60 + minute[1])
                 made       == AllSystems(1, day_factor, rng, timestamp)
             IN  [raised |-> FALSE, error |-> "",
                  value |-> Some([type |-> "FeatureCollection",
                                  features |-> made.features,
                                  metadata |-> [timestamp |-> timestamp,
                                                totalPoints |-> Len(made.features)]]),
                  rng |-> made.rng]


(***************************************************************************)
(* The environment: instants and mirror contents the checks draw from.     *)
(***************************************************************************)
ExampleNow ==
    [year |-> 2024, month |-> 6, day |-> 1, hour |-> 12, minute |-> 7,
     second |-> 30]

NewYearsEve ==
    [year |-> 2024, month |-> 12, day |-> 31, hour |-> 23, minute |-> 59,
     second |-> 30]

ProberInstants ==
    {d \in [year : {2023, 2024}, month : {1, 2, 3, 6, 12},
            day : {1, 28, 29, 30, 31}, hour : {0, 12, 23},
            minute : {0, 1, 7, 19, 20, 59}, second : {0, 30, 59}] :
        d.day <= DaysInMonth(d.year, d.month)}

\* The files the mirrors may hold: the 2-minute products of 2024-06-01 from
\* 12:10 (slot -2) back to 11:44 (slot 11), written out without the prober's
\* own date arithmetic.
SlotStamp(k) ==
    <<"2", "0", "2", "4", "0", "6", "0", "1", "-">>
        \o Pad((726 - 2 * k) \div 60, 2) \o Pad((726 - 2 * k) % 60, 2)
        \o <<"0", "0">>

AwsFile(k) ==
    [dir  |-> "https://noaa-mrms-pds.s3.amazonaws.com/MRMS_ReflectivityAtLowestAltitude",
     file |-> SlotStamp(k) \o GribExt]

NcepFile(k) ==
    [dir  |-> "https://mrms.ncep.noaa.gov/data/CONUS",
     file |-> NcepFilePrefix \o SlotStamp(k) \o GribExt]

Modes == {"up", "timeout", "http503"}

EmptyRemote == [files |-> {}, aws |-> "up", ncep |-> "up"]

RECURSIVE SubsetsUpTo(_, _)
SubsetsUpTo(S, n) ==
    IF n = 0 THEN {{}}
    ELSE LET smaller == SubsetsUpTo(S, n - 1)
         IN  smaller \cup {T \cup {x} : T \in smaller, x \in S}

\* The slots the prober's mirrors draw from: the newest three candidates, the
\* oldest two, and one just outside the 20-minute window.
ProberSlots == {0, 1, 2, 9, 10, 11}

\* Every remote holding at most MaxFiles files of those slots, each mirror up,
\* unreachable or refusing.
ProberRemotes ==
    UNION {
        {[files |-> {AwsFile(k) : k \in A} \cup {NcepFile(k) : k \in B},
          aws |-> ma, ncep |-> mn] :
            B \in SubsetsUpTo(ProberSlots, MaxFiles - Cardinality(A)),
            ma \in Modes, mn \in Modes} :
        A \in SubsetsUpTo(ProberSlots, MaxFiles)}

NumWorkers == 2
Workers == 1..NumWorkers

IdleFrame == [req |-> 0, found |-> None, result |-> None]

\* What every specification starts from, the environment apart.
Quiet ==
    /\ clock = 0
    /\ cached_data = None
    /\ last_fetch_time = None
    /\ calls = <<>>
    /\ probes = <<>>
    /\ located = None
    /\ level_in = None
    /\ level_out = None
    /\ collection = None
    /\ pc = [w \in Workers |-> "idle"]
    /\ frame = [w \in Workers |-> IdleFrame]
    /\ started = 0
    /\ cd_writer = 0
    /\ lf_writer = 0

(***************************************************************************)
(* SpecProber: get_latest_data_url applied to bounded instants and mirrors. *)
(***************************************************************************)
InitProber ==
    /\ Quiet
    /\ random_state = [cycle |-> <<0>>, pos |-> 1]
    /\ \/ base \in ProberInstants /\ remote = EmptyRemote
       \/ base = ExampleNow /\ remote \in ProberRemotes

Locate ==
    /\ located = None
    /\ LET r == get_latest_data_url(utcnow, remote)
       IN  /\ located' = Some([data_url |-> r.data_url, timestamp |-> r.timestamp])
           /\ probes' = r.log
    /\ UNCHANGED <<base, clock, remote, cached_data, last_fetch_time, calls,
                   level_in, level_out, collection, random_state, pc, frame, started,
                   cd_writer, lf_writer>>

NextProber == Locate

SpecProber == InitProber /\ [][NextProber]_vars

(***************************************************************************)
(* The prober's claims.                                                    *)
(***************************************************************************)
\* A file exists on a mirror when a HEAD request for it is answered 200.
Exists(url) ==
    LET response == requests_head(remote, url)
    IN  ~response.raised /\ response.status_code = 200

\* The order the claim prescribes: the primary mirror's 11 candidates from the
\* newest to the oldest, then the secondary mirror's.
ProbeOrder ==
    LET ts == Timestamps(utcnow)
    IN  [i \in 1..(2 * Len(ts)) |->
            IF i <= Len(ts) THEN AwsUrl(ts[i]) ELSE NcepUrl(ts[i - Len(ts)])]

\* C5: the prober probes the primary mirror's candidates newest first and the
\* secondary mirror's only after all 11 primary ones were absent; it returns
\* the first probe answered 200 and stops there; a network error or another
\* status counts as absent; it returns (None, None) exactly when no candidate
\* exists on either mirror.
C5_ProbeOrderFirstHit ==
    located # None =>
        LET r     == located[1]
            n     == Len(probes)
            order == ProbeOrder
            there == [i \in 1..Len(order) |-> Exists(order[i])]
        IN  /\ n \in 1..Len(order)
            /\ probes = SubSeq(order, 1, n)
            /\ \A i \in 1..(n - 1) : ~there[i]
            /\ (r.data_url = None) = (r.timestamp = None)
            /\ r.data_url # None =>
                  /\ there[n]
                  /\ r.data_url[1] = probes[n]
                  /\ AwsUrl(r.timestamp[1]) = order[((n - 1) % 11) + 1]
            /\ r.data_url = None =>
                  /\ n = 22
                  /\ ~there[n]
            /\ (r.data_url = None) = (\A i \in 1..22 : ~there[i])

\* C5's case: the primary mirror holds a candidate but is unreachable, and the
\* result comes from the secondary mirror after all 11 primary probes.
C5_Witness ==
    /\ located # None
    /\ located[1].data_url # None
    /\ located[1].data_url[1].dir = ncep_base_url
    /\ remote.aws = "timeout"
    /\ \E k \in 0..10 : AwsFile(k) \in remote.files
    /\ Len(probes) > 12

\* The proleptic Gregorian day number of a date (days since 1970-01-01).
DaysFromCivil(y, m, d) ==
    LET yy  == IF m <= 2 THEN y - 1 ELSE y
        era == yy \div 400
        yoe == yy - era * 400
        mp  == (m + 9) % 12
        doy == (153 * mp + 2) \div 5 + d - 1
        doe == yoe * 365 + yoe \div 4 - yoe \div 100 + doy
    IN  era * 146097 + doe - 719468

\* The minute, counted from 1970-01-01T00:00, that a YYYYMMDD-HHMM00 names.
StampMinute(t) ==
    DaysFromCivil(IntOf(Slice(t, 0, 4))[1], IntOf(Slice(t, 4, 6))[1],
                  IntOf(Slice(t, 6, 8))[1]) * 1440
        + IntOf(Slice(t, 9, 11))[1] * 60 + IntOf(Slice(t, 11, 13))[1]

WellFormedStamp(t) ==
    /\ Len(t) = 15
    /\ t[9] = "-"
    /\ Slice(t, 13, 15) = <<"0", "0">>
    /\ \A i \in (1..13) \ {9} : IsDigit(t[i])
    /\ IntOf(Slice(t, 4, 6))[1] \in 1..12
    /\ IntOf(Slice(t, 6, 8))[1] \in
           1..DaysInMonth(IntOf(Slice(t, 0, 4))[1], IntOf(Slice(t, 4, 6))[1])
    /\ IntOf(Slice(t, 9, 11))[1] \in 0..23
    /\ IntOf(Slice(t, 11, 13))[1] \in 0..59

\* The candidate a primary-mirror probe asked for: the file name less '.grib2.gz'.
ProbedStamp(i) == SubSeq(probes[i].file, 1, Len(probes[i].file) - Len(GribExt))

\* The UTC minute, counted from 1970-01-01T00:00, that holds clock instant t.
MinuteAt(t) ==
    DaysFromCivil(base.year, base.month, base.day) * 1440
        + (base.hour * 3600 + base.minute * 60 + base.second + t) \div 60

NowMinute == MinuteAt(clock)

C7_WitnessExample ==
    /\ located # None
    /\ Len(probes) = 22
    /\ base = ExampleNow

(***************************************************************************)
(* SpecClassifier: _get_intensity_level applied to bounded values.         *)
(***************************************************************************)
\* Whole dBZ from -5 to MaxDbz, and the thousandths next to and between them.
ClassifierInputs ==
    {v \in (-5 * Milli)..(MaxDbz * Milli) : v % Milli \in {0, 1, 500, 999}}

StillRandom == [cycle |-> <<0>>, pos |-> 1]

InitClassifier ==
    /\ Quiet
    /\ base = ExampleNow
    /\ remote = EmptyRemote
    /\ random_state = StillRandom

Classify ==
    /\ \E v \in ClassifierInputs :
          /\ level_in' = Some(v)
          /\ level_out' = Some(_get_intensity_level(v))
    /\ UNCHANGED <<base, clock, remote, cached_data, last_fetch_time, calls,
                   probes, located, collection, random_state, pc, frame,
                   started, cd_writer, lf_writer>>

NextClassifier == Classify

SpecClassifier == InitClassifier /\ [][NextClassifier]_vars

Labels == {"very light", "light", "moderate", "heavy", "extreme"}

\* C8: _get_intensity_level is total, with lower-inclusive thresholds:
\* value >= 50 extreme, 40 <= value < 50 heavy, 30 <= value < 40 moderate,
\* 20 <= value < 30 light, value < 20 very light; so 50.0 is extreme, 49.999
\* heavy, 40.0 heavy, 39.999 moderate, 30.0 moderate, 20.0 light and 19.999
\* very light.
C8_Thresholds ==
    level_in # None =>
        LET v == level_in[1]
            l == level_out[1]
        IN  /\ l \in Labels
            /\ (l = "extreme") = (v >= 50000)
            /\ (l = "heavy") = (40000 <= v /\ v < 50000)
            /\ (l = "moderate") = (30000 <= v /\ v < 40000)
            /\ (l = "light") = (20000 <= v /\ v < 30000)
            /\ (l = "very light") = (v < 20000)
            /\ v = 50000 => l = "extreme"
            /\ v = 49999 => l = "heavy"
            /\ v = 40000 => l = "heavy"
            /\ v = 39999 => l = "moderate"
            /\ v = 30000 => l = "moderate"
            /\ v = 20000 => l = "light"
            /\ v = 19999 => l = "very light"

\* C8's case: a value on a threshold has been classified.
C8_Witness == level_in = Some(40000) /\ level_out = Some("heavy")

(***************************************************************************)
(* SpecGenerator: _generate_realistic_mrms_data applied to bounded          *)
(* timestamps and random sources.                                          *)
(***************************************************************************)
GeneratorInstants ==
    {[ExampleNow EXCEPT !.hour = h, !.minute = m] :
        h \in {0, 6, 12, 18}, m \in {0, 30}}

\* random() values: the two ends of [0, 1), the middle, and two in between.
UnitDraws == {0, 274, 500, 750, 999}

InitGenerator ==
    /\ Quiet
    /\ base \in GeneratorInstants
    /\ remote = EmptyRemote
    /\ random_state \in [cycle : [1..CycleLen -> UnitDraws], pos : {1}]

Generate ==
    /\ collection = None
    /\ LET made == _generate_realistic_mrms_data(Stamp(utcnow), random_state)
       IN  /\ collection' = made.value
           /\ random_state' = made.rng
    /\ UNCHANGED <<base, clock, remote, cached_data, last_fetch_time, calls,
                   probes, located, level_in, level_out, pc, frame, started,
                   cd_writer, lf_writer>>

NextGenerator == Generate

SpecGenerator == InitGenerator /\ [][NextGenerator]_vars

\* C9: every Reading carries the classifier's label for its own emitted value:
\* 'intensity' is the classification of 'reflectivity' as it appears in the
\* output.
C9_LabelMatchesEmittedValue ==
    collection # None =>
        \A i \in 1..Len(collection[1].features) :
            collection[1].features[i].intensity
                = _get_intensity_level(collection[1].features[i].reflectivity)

(***************************************************************************)
(* mrms_service: the cache-fronted request handler.                        *)
(***************************************************************************)
CACHE_DURATION == 120

\* A variant with the comparison turned around.
CacheIsFresh_Reversed(cd, lf, now) ==
    /\ cd # None
    /\ lf # None
    /\ now - lf[1] > CACHE_DURATION

\* A variant that lets an entry expire after half of CACHE_DURATION.
CacheIsFresh_HalfDuration(cd, lf, now) ==
    /\ cd # None
    /\ lf # None
    /\ 2 * (now - lf[1]) < CACHE_DURATION

\* if cached_data and last_fetch_time: ... if time_diff < CACHE_DURATION
CacheIsFresh(cd, lf, now) ==
    /\ cd # None
    /\ lf # None
    /\ now - lf[1] < CACHE_DURATION

\* The success envelope; its constant members 'bounds' and 'source' are left out.
SuccessBody(now, data_url, data, note) ==
    [success |-> TRUE, timestamp |-> now, dataUrl |-> data_url, data |-> data,
     note |-> note]

ErrorBody(error, now) == [success |-> FALSE, error |-> error, timestamp |-> now]

\* A variant that stamps the prober's 2-minute boundary, not the minute.
FallbackTimestamp_Rounded(utc) == Stamp(DataTime(utc))

\* datetime.utcnow().strftime('%Y%m%d-%H%M00')
FallbackTimestamp(utc) == Stamp(utc)

\* 'https://noaa-mrms-pds.s3.amazonaws.com/'
FallbackUrl == [dir |-> aws_base_url, file |-> <<>>]

\* The instants at which the environment lets something happen: each multiple
\* of CACHE_DURATION and the second before it.
Instants ==
    {t \in 0..MaxClock : t % CACHE_DURATION \in {0, CACHE_DURATION - 1}}

HandlerBases == {ExampleNow, NewYearsEve}

\* Two random sources: one whose points all stay inside CONUS, one that sends
\* the west-coast system's points out over the Pacific.
HandlerCycles == {<<0, 0, 274>>, <<750, 999, 500>>}

\* What the mirrors hold when a request arrives: nothing; the same two files
\* with both mirrors unreachable, both up, or the primary one refusing.
HandlerRemotes ==
    {EmptyRemote}
        \cup {[files |-> {AwsFile(1), NcepFile(0)}, aws |-> m[1], ncep |-> m[2]] :
                 m \in {<<"timeout", "timeout">>, <<"up", "up">>,
                        <<"http503", "up">>}}

\* The generator's results over the inputs the handler can give it, computed
\* once; generate is _generate_realistic_mrms_data read from that table.
GeneratorTable ==
    {<<a, _generate_realistic_mrms_data(a[1], a[2])>> :
        a \in ({Stamp(AddSeconds(b, t)) : b \in HandlerBases, t \in Instants}
                   \cup {SlotStamp(0), SlotStamp(1)})
               \X {[cycle |-> c, pos |-> q] : c \in HandlerCycles, q \in 1..3}}

generate(timestamp, rng) ==
    IF \E e \in GeneratorTable : e[1] = <<timestamp, rng>>
    THEN (CHOOSE e \in GeneratorTable : e[1] = <<timestamp, rng>>)[2]
    ELSE _generate_realistic_mrms_data(timestamp, rng)

\* data_url.split('/')[-1].replace('.grib2.gz', ''), then the generator.
download_and_process_data(data_url, rng) ==
    LET timestamp == Remove(data_url.file, GribExt)
    IN  generate(timestamp, rng)

\* The try block of get_radar_data and its except clause: the response, whether
\* the cache is overwritten with it, and the generator state left behind.
Refresh(now, utc, rem, rng) ==
    LET found     == get_latest_data_url(utc, rem)
        ref       == [data_url |-> found.data_url, timestamp |-> found.timestamp]
        processed == download_and_process_data(found.data_url[1], rng)
        fallback  == generate(FallbackTimestamp(utc), rng)
    IN  IF found.data_url # None /\ processed.raised
        THEN [branch |-> "error", status |-> 500,
              body |-> ErrorBody(processed.error, now),
              rng |-> processed.rng, ref |-> Some(ref),
              probed |-> Len(found.log), generated |-> TRUE]
        ELSE IF found.data_url # None /\ processed.value # None
        THEN [branch |-> "reference", status |-> 200,
              body |-> SuccessBody(now, found.data_url[1], processed.value[1],
                           "Real MRMS Reflectivity at Lowest Altitude (RALA) - Enhanced Simulation"),
              rng |-> processed.rng, ref |-> Some(ref),
              probed |-> Len(found.log), generated |-> TRUE]
        ELSE IF fallback.raised
        THEN [branch |-> "error", status |-> 500,
              body |-> ErrorBody(fallback.error, now),
              rng |-> fallback.rng, ref |-> Some(ref),
              probed |-> Len(found.log), generated |-> TRUE]
        ELSE [branch |-> "fallback", status |-> 200,
              body |-> SuccessBody(now, FallbackUrl, fallback.value[1],
                           "Real MRMS Data - Enhanced Simulation"),
              rng |-> fallback.rng, ref |-> Some(ref),
              probed |-> Len(found.log), generated |-> TRUE]

\* get_radar_data, from the cache test to the response.
Handle(cd, lf, now, utc, rem, rng) ==
    IF CacheIsFresh(cd, lf, now)
    THEN [branch |-> "fresh", status |-> 200, body |-> cd[1],
          rng |-> rng, ref |-> None, probed |-> 0, generated |-> FALSE]
    ELSE Refresh(now, utc, rem, rng)

\* A variant that overwrites the cache whatever the outcome.
StoresResult_Always(branch) == TRUE

\* The branches that end with "cached_data = result; last_fetch_time = now()".
StoresResult(branch) == branch \in {"reference", "fallback"}

\* The last two completed requests.
LastTwo(s) == IF Len(s) > 2 THEN SubSeq(s, Len(s) - 1, Len(s)) ELSE s

(***************************************************************************)
(* Spec: requests handled one at a time, the clock and the mirrors         *)
(* changing between them.                                                  *)
(***************************************************************************)
Init ==
    /\ Quiet
    /\ base \in HandlerBases
    /\ remote \in HandlerRemotes
    /\ random_state \in [cycle : HandlerCycles, pos : {1}]

Tick ==
    /\ \E t \in Instants : t > clock /\ clock' = t
    /\ UNCHANGED <<base, remote, cached_data, last_fetch_time, calls, probes,
                   located, level_in, level_out, collection, random_state, pc,
                   frame, started, cd_writer, lf_writer>>

RemoteChanges ==
    /\ \E r \in HandlerRemotes : r # remote /\ remote' = r
    /\ UNCHANGED <<base, clock, cached_data, last_fetch_time, calls, probes,
                   located, level_in, level_out, collection, random_state, pc,
                   frame, started, cd_writer, lf_writer>>

get_radar_data ==
    /\ \E out \in {Handle(cached_data, last_fetch_time, clock, utcnow, remote,
                          random_state)} :
           /\ cached_data' = IF StoresResult(out.branch) THEN Some(out.body) ELSE cached_data
           /\ last_fetch_time' = IF StoresResult(out.branch) THEN Some(clock) ELSE last_fetch_time
           /\ random_state' = out.rng
           /\ calls' = LastTwo(Append(calls,
                           [at |-> clock, branch |-> out.branch,
                            status |-> out.status, body |-> out.body,
                            ref |-> out.ref, probed |-> out.probed,
                            generated |-> out.generated,
                            fetched |-> IF StoresResult(out.branch) THEN Some(clock)
                                        ELSE last_fetch_time]))
    /\ UNCHANGED <<base, clock, remote, probes, located, level_in, level_out,
                   collection, pc, frame, started, cd_writer, lf_writer>>

Next == Tick \/ RemoteChanges \/ get_radar_data

Spec == Init /\ [][Next]_vars

(***************************************************************************)
(* The handler's claims, for requests handled one at a time.               *)
(***************************************************************************)
LastCall == calls[Len(calls)]

\* C1: whenever a cache entry exists and now - last_fetch_time is less than
\* CACHE_DURATION (120 s), the handler returns exactly the stored cached_data
\* and has no side effects: no existence probe, no call of the generator,
\* cached_data and last_fetch_time unchanged.
C1_FreshReturnsCache ==
    [][(/\ cached_data # None
        /\ last_fetch_time # None
        /\ clock - last_fetch_time[1] < 120
        /\ calls' # calls)
          => /\ calls'[Len(calls')].status = 200
             /\ calls'[Len(calls')].body = cached_data[1]
             /\ calls'[Len(calls')].probed = 0
             /\ ~calls'[Len(calls')].generated
             /\ random_state' = random_state
             /\ cached_data' = cached_data
             /\ last_fetch_time' = last_fetch_time]_vars

\* C1's case: a request served from an entry stored 119 seconds earlier.
C1_Witness ==
    /\ calls # <<>>
    /\ LastCall.branch = "fresh"
    /\ last_fetch_time # None
    /\ LastCall.at - last_fetch_time[1] = 119

\* C2: whenever an unexpected error is raised while the handler processes a
\* stale or empty cache, the response is {success: false, error, timestamp}
\* with status 500, cached_data and last_fetch_time are what they were before
\* the request, and an error response is never stored in the cache.
C2_ErrorLeavesCache ==
    [][(/\ calls' # calls
        /\ calls'[Len(calls')].branch = "error")
          => /\ calls'[Len(calls')].status = 500
             /\ calls'[Len(calls')].body
                    = [success |-> FALSE, error |-> "ValueError",
                       timestamp |-> clock]
             /\ cached_data' = cached_data
             /\ last_fetch_time' = last_fetch_time
             /\ cached_data' # None => cached_data'[1].success]_vars

\* C2's case: a request failed while a stale entry was in the cache, and the
\* entry is still there.
C2_Witness ==
    /\ calls # <<>>
    /\ LastCall.branch = "error"
    /\ LastCall.status = 500
    /\ cached_data # None
    /\ last_fetch_time # None
    /\ LastCall.at - last_fetch_time[1] >= 120

\* C3: for every reference the prober can return, found on the primary or on
\* the secondary mirror, the orchestrator returns a FeatureCollection whose
\* metadata timestamp is the reference's timestamp, no error reaches the
\* handler, and the request ends with success: true.
C3_EveryReferenceProcessed ==
    \A i \in 1..Len(calls) :
        (calls[i].ref # None /\ calls[i].ref[1].data_url # None) =>
            /\ calls[i].status = 200
            /\ calls[i].body.success
            /\ calls[i].body.data.type = "FeatureCollection"
            /\ calls[i].body.data.metadata.timestamp = calls[i].ref[1].timestamp[1]

\* C4: when the cache is stale or empty and the prober returns NotFound, also
\* when every probe fails with a network error, the handler returns success:
\* true with a non-empty FeatureCollection generated for the current UTC
\* minute, with zero seconds.
C4_NotFoundFallsBack ==
    \A i \in 1..Len(calls) :
        (calls[i].ref # None /\ calls[i].ref[1].data_url = None) =>
            /\ calls[i].status = 200
            /\ calls[i].body.success
            /\ calls[i].body.data.type = "FeatureCollection"
            /\ Len(calls[i].body.data.features) > 0
            /\ WellFormedStamp(calls[i].body.data.metadata.timestamp)
            /\ StampMinute(calls[i].body.data.metadata.timestamp)
                   = MinuteAt(calls[i].at)

\* C4's case: both mirrors are unreachable, all 22 probes failed, and the
\* request was answered from the generator, a minute past a 2-minute boundary.
C4_Witness ==
    /\ calls # <<>>
    /\ LastCall.at = clock
    /\ LastCall.branch = "fallback"
    /\ LastCall.probed = 22
    /\ remote.aws = "timeout" /\ remote.ncep = "timeout"
    /\ MinuteAt(clock) % 2 = 1

\* C6 as stated: any two calls made within CACHE_DURATION (120) seconds of
\* each other, with no failure between them, return identical payloads,
\* timestamp included.
C6_WithinDurationIdentical ==
    (/\ Len(calls) = 2
     /\ calls[1].status = 200
     /\ calls[2].status = 200
     /\ calls[2].at - calls[1].at < 120)
        => calls[2].body = calls[1].body

\* C6 as it holds: two consecutive calls, the first of which succeeds, return
\* identical payloads, timestamp included, when the second is made less than
\* CACHE_DURATION seconds after last_fetch_time, the time at which the payload
\* the first call returned was stored.
C6_WithinDurationOfFetchIdentical ==
    (/\ Len(calls) = 2
     /\ calls[1].status = 200
     /\ calls[1].fetched # None
     /\ calls[2].at - calls[1].fetched[1] < 120)
        => /\ calls[2].status = 200
           /\ calls[2].body = calls[1].body

\* C6's case: a call that refreshed the cache and a call 119 seconds later.
C6_Witness ==
    /\ Len(calls) = 2
    /\ StoresResult(calls[1].branch)
    /\ calls[2].branch = "fresh"
    /\ calls[2].at - calls[1].at = 119

(***************************************************************************)
(* SpecThreaded: the handler run by the server's worker threads, one        *)
(* statement of get_radar_data at a time.  pc names the line a worker is    *)
(* about to execute; frame holds its local variables.                       *)
(***************************************************************************)
InitThreaded ==
    /\ Quiet
    /\ base = ExampleNow
    /\ remote \in {EmptyRemote,
                   [files |-> {AwsFile(1)}, aws |-> "up", ncep |-> "up"],
                   [files |-> {NcepFile(0)}, aws |-> "up", ncep |-> "up"]}
    /\ random_state = [cycle |-> <<0, 0, 274>>, pos |-> 1]

ThreadedFrame == <<base, remote, probes, located, level_in, level_out, collection>>

\* A request arrives and a worker enters get_radar_data.
Begin(w) ==
    /\ pc[w] = "idle"
    /\ started < MaxRequests
    /\ started' = started + 1
    /\ frame' = [frame EXCEPT ![w] = [IdleFrame EXCEPT !.req = started + 1]]
    /\ pc' = [pc EXCEPT ![w] = "l25"]
    /\ UNCHANGED <<clock, cached_data, last_fetch_time, calls, random_state,
                   cd_writer, lf_writer>>
    /\ UNCHANGED ThreadedFrame

\* if cached_data and last_fetch_time:
L25(w) ==
    /\ pc[w] = "l25"
    /\ pc' = [pc EXCEPT ![w] = IF cached_data # None /\ last_fetch_time # None
                               THEN "l26" ELSE "l33"]
    /\ UNCHANGED <<clock, cached_data, last_fetch_time, calls, random_state,
                   frame, started, cd_writer, lf_writer>>
    /\ UNCHANGED ThreadedFrame

\* time_diff = (datetime.now() - last_fetch_time).total_seconds()
\* if time_diff < CACHE_DURATION:
L26(w) ==
    /\ pc[w] = "l26"
    /\ pc' = [pc EXCEPT ![w] = IF clock - last_fetch_time[1] < CACHE_DURATION
                               THEN "l29" ELSE "l33"]
    /\ UNCHANGED <<clock, cached_data, last_fetch_time, calls, random_state,
                   frame, started, cd_writer, lf_writer>>
    /\ UNCHANGED ThreadedFrame

\* What a worker leaves behind when it returns.
Returned(w, branch, status, body) ==
    /\ calls' = <<[at |-> clock, branch |-> branch, status |-> status,
                   body |-> body, req |-> frame[w].req]>>
    /\ frame' = [frame EXCEPT ![w] = IdleFrame]
    /\ pc' = [pc EXCEPT ![w] = "idle"]

\* return jsonify(cached_data)
L29(w) ==
    /\ pc[w] = "l29"
    /\ Returned(w, "fresh", 200, cached_data[1])
    /\ UNCHANGED <<clock, cached_data, last_fetch_time, random_state, started,
                   cd_writer, lf_writer>>
    /\ UNCHANGED ThreadedFrame

\* data_url, timestamp = mrms_processor.get_latest_data_url(); if data_url:
L33(w) ==
    /\ pc[w] = "l33"
    /\ LET found == get_latest_data_url(utcnow, remote)
       IN  /\ frame' = [frame EXCEPT ![w].found = found.data_url]
           /\ pc' = [pc EXCEPT ![w] = IF found.data_url # None THEN "l38"
                                      ELSE "l60"]
    /\ UNCHANGED <<clock, cached_data, last_fetch_time, calls, random_state,
                   started, cd_writer, lf_writer>>
    /\ UNCHANGED ThreadedFrame

\* processed_data = download_and_process_data(data_url); if processed_data:
\* result = {...}
L38(w) ==
    /\ pc[w] = "l38"
    /\ LET processed == download_and_process_data(frame[w].found[1], random_state)
       IN  /\ random_state' = processed.rng
           /\ IF processed.raised
              THEN /\ frame' = [frame EXCEPT ![w].result =
                                   Some(ErrorBody(processed.error, clock))]
                   /\ pc' = [pc EXCEPT ![w] = "l80"]
              ELSE IF processed.value # None
              THEN /\ frame' = [frame EXCEPT ![w].result =
                                   Some(SuccessBody(clock, frame[w].found[1],
                                            processed.value[1],
                                            "Real MRMS Reflectivity at Lowest Altitude (RALA) - Enhanced Simulation"))]
                   /\ pc' = [pc EXCEPT ![w] = "l52"]
              ELSE /\ frame' = frame
                   /\ pc' = [pc EXCEPT ![w] = "l60"]
    /\ UNCHANGED <<clock, cached_data, last_fetch_time, calls, started,
                   cd_writer, lf_writer>>
    /\ UNCHANGED ThreadedFrame

\* current_timestamp = ...; fallback_data = ...; result = {...}
L60(w) ==
    /\ pc[w] = "l60"
    /\ LET fallback == generate(FallbackTimestamp(utcnow), random_state)
       IN  /\ random_state' = fallback.rng
           /\ IF fallback.raised
              THEN /\ frame' = [frame EXCEPT ![w].result =
                                   Some(ErrorBody(fallback.error, clock))]
                   /\ pc' = [pc EXCEPT ![w] = "l80"]
              ELSE /\ frame' = [frame EXCEPT ![w].result =
                                   Some(SuccessBody(clock, FallbackUrl,
                                            fallback.value[1],
                                            "Real MRMS Data - Enhanced Simulation"))]
                   /\ pc' = [pc EXCEPT ![w] = "l73"]
    /\ UNCHANGED <<clock, cached_data, last_fetch_time, calls, started,
                   cd_writer, lf_writer>>
    /\ UNCHANGED ThreadedFrame

\* cached_data = result   (line 52, and line 73 on the fallback path)
StoreData(w) ==
    /\ pc[w] \in {"l52", "l73"}
    /\ cached_data' = frame[w].result
    /\ cd_writer' = frame[w].req
    /\ pc' = [pc EXCEPT ![w] = IF pc[w] = "l52" THEN "l53" ELSE "l74"]
    /\ UNCHANGED <<clock, last_fetch_time, calls, random_state, frame, started,
                   lf_writer>>
    /\ UNCHANGED ThreadedFrame

\* last_fetch_time = datetime.now()   (line 53, and line 74)
StoreTime(w) ==
    /\ pc[w] \in {"l53", "l74"}
    /\ last_fetch_time' = Some(clock)
    /\ lf_writer' = frame[w].req
    /\ pc' = [pc EXCEPT ![w] = IF pc[w] = "l53" THEN "l56" ELSE "l76"]
    /\ UNCHANGED <<clock, cached_data, calls, random_state, frame, started,
                   cd_writer>>
    /\ UNCHANGED ThreadedFrame

\* return jsonify(result)   (line 56, and line 76)
ReturnResult(w) ==
    /\ pc[w] \in {"l56", "l76"}
    /\ Returned(w, IF pc[w] = "l56" THEN "reference" ELSE "fallback", 200,
                frame[w].result[1])
    /\ UNCHANGED <<clock, cached_data, last_fetch_time, random_state, started,
                   cd_writer, lf_writer>>
    /\ UNCHANGED ThreadedFrame

\* except Exception as e: return jsonify({...}), 500
L80(w) ==
    /\ pc[w] = "l80"
    /\ Returned(w, "error", 500, frame[w].result[1])
    /\ UNCHANGED <<clock, cached_data, last_fetch_time, random_state, started,
                   cd_writer, lf_writer>>
    /\ UNCHANGED ThreadedFrame

\* Time passes, within the first CACHE_DURATION seconds.
TickThreaded ==
    /\ \E t \in Instants : t > clock /\ t <= CACHE_DURATION /\ clock' = t
    /\ UNCHANGED <<cached_data, last_fetch_time, calls, random_state, pc, frame,
                   started, cd_writer, lf_writer>>
    /\ UNCHANGED ThreadedFrame

NextThreaded ==
    \/ TickThreaded
    \/ \E w \in Workers :
          \/ Begin(w) \/ L25(w) \/ L26(w) \/ L29(w) \/ L33(w) \/ L38(w)
          \/ L60(w) \/ StoreData(w) \/ StoreTime(w) \/ ReturnResult(w)
          \/ L80(w)

SpecThreaded == InitThreaded /\ [][NextThreaded]_vars

\* C10: under any interleaving of concurrent requests the cache slot is
\* last-writer-wins as one unit: whenever a request reads the cache,
\* cached_data and last_fetch_time were written by the same request (never
\* one request's payload with another's fetch time, never a payload with no
\* fetch time), so a request that takes the fresh branch returns a payload
\* less than CACHE_DURATION old.
C10_CacheSlotIsOneUnit ==
    /\ (\E w \in Workers : pc[w] \in {"l25", "l26", "l29"})
           => cd_writer = lf_writer
    /\ (calls # <<>> /\ calls[1].branch = "fresh")
           => calls[1].at - calls[1].body.timestamp < 120

\* The second half of C10 alone: a payload served from the cache was built
\* less than CACHE_DURATION before.
C10_FreshPayloadIsRecent ==
    (calls # <<>> /\ calls[1].branch = "fresh")
        => calls[1].at - calls[1].body.timestamp < 120

\* The first half of C10 for a complete entry: a request that finds both
\* cached_data and last_fetch_time set finds them written by one request.
C10_NoMixedEntry ==
    (/\ \E w \in Workers : pc[w] \in {"l25", "l26", "l29"}
     /\ cached_data # None
     /\ last_fetch_time # None)
        => cd_writer = lf_writer
====
